---- MODULE Spec2Model ----
(***************************************************************************)
(* N-Queens solvers: greedy hill climbing, simulated annealing, genetic    *)
(* algorithm and exhaustive depth-first search.                            *)
(*                                                                         *)
(* A board is a function from the code's indices 0..n-1 to 0..n-1; a nil   *)
(* slice is <<>>.  Every rand draw is a nondeterministic choice.  A local  *)
(* variable of a function holds its value while the function runs and 0    *)
(* (or <<>>) otherwise.                                                    *)
(***************************************************************************)
EXTENDS Integers, Sequences, FiniteSets, TLC

(***************************************************************************)
(* Bounds of the model                                                     *)
(***************************************************************************)
\* the greedy and annealing solvers and the pure functions: n in 1..MaxN
MaxN == 4
\* the genetic solver: n in 1..GAMaxN
GAMaxN == 2
\* a single run of the genetic solver: n in 2..GARunMaxN
GARunMaxN == 3
\* the exhaustive solver: n in 1..ExhaustiveMaxN
ExhaustiveMaxN == 6
\* Solve is called at most MaxCalls times on one solver instance
MaxCalls == 1
\* but CallSequenceLength times where sequences of calls are studied
CallSequenceLength == 2
\* the loop of GreedySolver.Solve is cut after this many iterations
GreedyIterationCap == 3
\* the loop of SimulatedAnnealingSolver.singleRun is cut after this many
SAIterationCap == 2
\* the generation loop of GeneticSolver.singleRun is cut after this many
GenerationCap == 3
\* populationSize (80, 120 or 150 in the code)
PopulationSize == 3
\* the stagnation count above which singleRun abandons a run (50 in the code)
StagnationLimit == 1
\* the stagnation count above which singleRun adapts (20 in the code)
AdaptThreshold == 0

VARIABLES
    solver,      \* the type of the solver instance, or the function called alone
    n,           \* the instance's n
    pc,          \* where control is inside Solve; "idle" outside it
    calls,       \* Solve calls started so far
    callLimit,   \* the number of Solve calls the caller makes
    result,      \* what the last Solve returned; "none" before the first
    out,         \* what PrintSolution printed; <<>> before it is called
    board,       \* the working board: g.board, sa.board, e.board
    solution,    \* the stored solution
    solved,      \* solved (solutionFound in the exhaustive solver)
    iter,        \* the loop counter iter (greedy Solve, annealing singleRun)
    hadZero,     \* history: the working board had zero conflicts during this
                 \* call (greedy) or this run (annealing)
    restart,     \* the loop counter restart of Solve (annealing, genetic)
    runsStarted, \* history: singleRun calls made by this Solve call
    runsFailed,  \* history: singleRun calls of this Solve call that returned false
    temperature, \* singleRun's temperature, in units of 1/10000
    currentCost, \* singleRun's currentCost
    bestCost,    \* singleRun's bestCost
    bestBoard,   \* singleRun's bestBoard
    pos1,        \* generateSmartNeighbor's pos1 while pos2 is redrawn
    population,  \* ga.population: index -> [chromosome, fitness]
    generation,  \* the loop counter generation of the genetic singleRun
    generationsWithoutImprovement,
    bestFitnessEver,
    mutationRate,\* ga.mutationRate, as a percentage
    stack,       \* the frames of solveRecursive: one col per active row
    args,        \* the arguments of a pure function called alone
    ret          \* what that function returned

common == <<solver, n, calls, callLimit>>
greedyVars == <<hadZero>>
saVars == <<temperature, currentCost, bestCost, bestBoard, pos1>>
gaVars == <<population, generation, generationsWithoutImprovement,
            bestFitnessEver, mutationRate>>
fnVars == <<args, ret>>

runs == <<runsStarted, runsFailed>>

vars == <<common, pc, result, out, board, solution, solved, iter, restart,
          runs, stack, greedyVars, saVars, gaVars, fnVars>>

\* a failed run that clears the solved flag
singleRunReturnsFalseClearing ==
    /\ solved' = FALSE
    /\ UNCHANGED <<solution, result>>

\* return false at the end of a singleRun: no field of the solver is written
singleRunReturnsFalse == UNCHANGED <<solution, solved, result>>

abs(x) == IF x < 0 THEN -x ELSE x

Min(a, b) == IF a < b THEN a ELSE b

Cols(k) == 0..(k - 1)

\* every []int of length k with values in [0,k)
Boards(k) == [Cols(k) -> Cols(k)]

\* make([]int, k)
ZeroBoard(k) == [i \in Cols(k) |-> 0]

\* rand.Perm(k): every permutation of 0..k-1
Perms(k) == {b \in Boards(k) : \A i, j \in Cols(k) : i # j => b[i] # b[j]}

\* the column pairs i < j of a board that share a row, and a diagonal
RowPairs(b, k) == {p \in Cols(k) \X Cols(k) : p[1] < p[2] /\ b[p[1]] = b[p[2]]}

DiagonalPairs(b, k) ==
    {p \in Cols(k) \X Cols(k) :
        p[1] < p[2] /\ abs(b[p[1]] - b[p[2]]) = p[2] - p[1]}

\* a placement of k mutually non-attacking queens
NonAttacking(b, k) ==
    /\ DOMAIN b = Cols(k)
    /\ \A i \in Cols(k) : b[i] \in Cols(k)
    /\ \A i, j \in Cols(k) :
          i # j => b[i] # b[j] /\ abs(b[i] - b[j]) # abs(i - j)

\* the grid the three PrintSolution methods print after the title line: for
\* each i a line, for each j "Q " when solution[i] == j and ". " otherwise
printGrid(sol, k) ==
    [i \in Cols(k) |-> [j \in Cols(k) |-> IF sol[i] = j THEN "Q" ELSE "."]]

\* PrintSolution: the message when !solved, else the grid; no field is written
PrintSolution ==
    /\ solver \in {"greedy", "sa", "ga"}
    /\ pc = "idle" /\ result # "none" /\ out = <<>>
    /\ out' = (IF ~solved THEN <<"No solution found">>
               ELSE printGrid(solution, n))
    /\ UNCHANGED <<common, pc, result, board, solution, solved, iter, restart,
                   runs, stack, greedyVars, saVars, gaVars, fnVars>>

(***************************************************************************)
(* GreedySolver                                                            *)
(***************************************************************************)
\* maxIterations: 10000
greedyMaxIterations == 10000

\* the loops of countConflicts: i from 0, j from i+1, two independent tests
RECURSIVE countConflictsFrom(_, _, _, _, _)
countConflictsFrom(b, k, i, j, conflicts) ==
    IF i >= k THEN conflicts
    ELSE IF j >= k THEN countConflictsFrom(b, k, i + 1, i + 2, conflicts)
    ELSE countConflictsFrom(b, k, i, j + 1,
            conflicts + (IF b[i] = b[j] THEN 1 ELSE 0)
                      + (IF abs(b[i] - b[j]) = abs(i - j) THEN 1 ELSE 0))

\* a countConflicts that starts the inner loop at j = i
countConflictsFromSelf(b, k) == countConflictsFrom(b, k, 0, 0, 0)

\* a countConflicts without the diagonal test
countConflictsRowsOnly(b, k) == Cardinality(RowPairs(b, k))

countConflicts(b, k) == countConflictsFrom(b, k, 0, 1, 0)

\* a tentative move that is not taken back
greedyTryNoRestore(s, k, col, newRow) ==
    LET moved == [s.board EXCEPT ![col] = newRow]
        newConflicts == countConflicts(moved, k)
        better == newConflicts < s.bestConflicts
    IN [board |-> moved,
        bestBoard |-> IF better THEN moved ELSE s.bestBoard,
        bestConflicts |-> IF better THEN newConflicts ELSE s.bestConflicts]

\* one tentative move of Solve's sweep, for newRow # g.board[col]: the move
\* is written to g.board[col], counted, and the original row is restored;
\* s is [board, bestBoard, bestConflicts]
greedyTry(s, k, col, newRow) ==
    LET originalRow == s.board[col]
        moved == [s.board EXCEPT ![col] = newRow]
        newConflicts == countConflicts(moved, k)
        better == newConflicts < s.bestConflicts
        restored == [moved EXCEPT ![col] = originalRow]
    IN [board |-> restored,
        bestBoard |-> IF better THEN moved ELSE s.bestBoard,
        bestConflicts |-> IF better THEN newConflicts ELSE s.bestConflicts]

\* the best-neighbour sweep of Solve: for col, for newRow, skipping the
\* queen's own row (t is the state after the tentative move at col, newRow)
RECURSIVE greedySweep(_, _, _, _)
greedySweep(s, k, col, newRow) ==
    IF col >= k THEN s
    ELSE IF newRow >= k THEN greedySweep(s, k, col + 1, 0)
    ELSE IF s.board[col] = newRow THEN greedySweep(s, k, col, newRow + 1)
    ELSE CHOOSE r \in {greedySweep(t, k, col, newRow + 1) :
                          t \in {greedyTry(s, k, col, newRow)}} : TRUE

\* Solve entry: randomInit draws every position
GreedySolve ==
    /\ solver = "greedy" /\ pc = "idle" /\ calls < callLimit
    /\ calls' = calls + 1
    /\ \E b \in Boards(n) :
          /\ board' = b
          /\ hadZero' = NonAttacking(b, n)
    /\ iter' = 0
    /\ pc' = "loop"
    /\ UNCHANGED <<solver, n, callLimit, result, out, solution, solved, restart,
                   runs, stack, saVars, gaVars, fnVars>>

\* what one iteration of Solve's loop does to the board when conflicts > 0:
\* the boards it can leave (one, or any board after randomInit)
greedyMove(b, k, conflicts) ==
    UNION {IF s.bestConflicts >= conflicts THEN Boards(k) ELSE {s.bestBoard} :
              s \in {greedySweep([board |-> b, bestBoard |-> b,
                                  bestConflicts |-> conflicts], k, 0, 0)}}

\* one iteration of the for loop of Solve, from the loop test to iter++
GreedyIterate ==
    /\ solver = "greedy" /\ pc = "loop"
    /\ iter < Min(greedyMaxIterations, GreedyIterationCap)
    /\ \E conflicts \in {countConflicts(board, n)} :
       IF conflicts = 0
       THEN /\ solution' = board
            /\ solved' = TRUE
            /\ result' = "true"
            /\ pc' = "idle"
            /\ iter' = 0
            /\ UNCHANGED <<board, hadZero>>
       ELSE /\ board' \in greedyMove(board, n, conflicts)
            /\ hadZero' = (hadZero \/ NonAttacking(board', n))
            /\ iter' = iter + 1
            /\ UNCHANGED <<solution, solved, result, pc>>
    /\ UNCHANGED <<common, out, restart, runs, stack, saVars, gaVars,
                   fnVars>>

\* the loop test fails: return false
GreedyReturnFalse ==
    /\ solver = "greedy" /\ pc = "loop"
    /\ iter >= Min(greedyMaxIterations, GreedyIterationCap)
    /\ result' = "false"
    /\ pc' = "idle"
    /\ iter' = 0
    /\ UNCHANGED <<common, out, board, solution, solved, restart, runs,
                   stack, greedyVars, saVars, gaVars, fnVars>>

NextGreedy == GreedySolve \/ GreedyIterate \/ GreedyReturnFalse

(***************************************************************************)
(* SimulatedAnnealingSolver                                                *)
(*                                                                         *)
(* The float64 temperature is kept in fixed point, in units of 1/10000.    *)
(***************************************************************************)
\* a restart loop that allows one run more
restartsPlusOne == 5 + 1

\* restarts: 5 (the same in NewGeneticSolver)
restarts == 5
\* coolingRate: 0.99, as a percentage
coolingRate == 99
\* minTemp: 0.01, in units of 1/10000
minTemp == 100
\* maxIterations: n * 1000
saIterationsPerN == 1000
\* the adaptive-cooling test of singleRun is made when iter % 100 == 0
driftPeriod == 100

\* initialTemp: float64(n * n)
initialTemp(k) == k * k * 10000

saMaxIterations(k) == k * saIterationsPerN

RECURSIVE calculateCostFrom(_, _, _, _, _)
calculateCostFrom(b, k, i, j, conflicts) ==
    IF i >= k THEN conflicts
    ELSE IF j >= k THEN calculateCostFrom(b, k, i + 1, i + 2, conflicts)
    ELSE calculateCostFrom(b, k, i, j + 1,
            conflicts + (IF b[i] = b[j] THEN 1 ELSE 0)
                      + (IF abs(b[i] - b[j]) = abs(i - j) THEN 1 ELSE 0))

calculateCostForBoard(b, k) == calculateCostFrom(b, k, 0, 1, 0)

RECURSIVE saConflictsForPositionFrom(_, _, _, _, _)
saConflictsForPositionFrom(b, k, col, j, conflicts) ==
    IF j >= k THEN conflicts
    ELSE IF j = col THEN saConflictsForPositionFrom(b, k, col, j + 1, conflicts)
    ELSE saConflictsForPositionFrom(b, k, col, j + 1,
            conflicts + (IF b[col] = b[j] THEN 1 ELSE 0)
                      + (IF abs(b[col] - b[j]) = abs(col - j) THEN 1 ELSE 0))

saCalculateConflictsForPosition(b, k, col) ==
    saConflictsForPositionFrom(b, k, col, 0, 0)

\* the column indices findConflictedQueens collects (drawn from uniformly)
findConflictedQueens(b, k) ==
    {i \in Cols(k) : saCalculateConflictsForPosition(b, k, i) > 0}

\* the row scan of strategies 2 and 3: rows other than neighbor[col], the
\* first row of strictly fewer conflicts wins
RECURSIVE saScanRows(_, _, _, _, _, _)
saScanRows(nb, k, col, row, bestRow, minConflicts) ==
    IF row >= k THEN bestRow
    ELSE IF row = nb[col]
         THEN saScanRows(nb, k, col, row + 1, bestRow, minConflicts)
    ELSE LET tempBoard == [nb EXCEPT ![col] = row]
             conflicts == saCalculateConflictsForPosition(tempBoard, k, col)
         IN IF conflicts < minConflicts
            THEN saScanRows(nb, k, col, row + 1, row, conflicts)
            ELSE saScanRows(nb, k, col, row + 1, bestRow, minConflicts)

\* strategy 1 once pos1 # pos2
saSwapNeighbor(b, p1, p2) == [b EXCEPT ![p1] = b[p2], ![p2] = b[p1]]

\* strategy 2, for the drawn conflicted column and the drawn initial bestRow
saConflictedNeighbor(b, k, col, drawnRow) ==
    [b EXCEPT ![col] = saScanRows(b, k, col, 0, drawnRow, k * k)]

\* strategy 3, for the drawn column
saLocalNeighbor(b, k, col) ==
    [b EXCEPT ![col] = saScanRows(b, k, col, 0, b[col],
                                  saCalculateConflictsForPosition(b, k, col))]

\* generateSmartNeighbor: every neighbor it can return for the board b
generateSmartNeighbor(b, k) ==
    {saSwapNeighbor(b, q[1], q[2]) :
        q \in {r \in Cols(k) \X Cols(k) : r[1] # r[2]}}
    \cup (IF findConflictedQueens(b, k) = {} THEN {b}
          ELSE {saConflictedNeighbor(b, k, col, drawnRow) :
                   col \in findConflictedQueens(b, k), drawnRow \in Cols(k)})
    \cup {saLocalNeighbor(b, k, col) : col \in Cols(k)}

\* acceptanceProbability(deltaCost, temperature) > rand.Float64() can be true:
\* math.Exp(-d/T) is positive unless it underflows (d/T above about 745)
saCanAcceptWorse(deltaCost, temp) == deltaCost * 10000 <= 745 * temp

\* a singleRun without its test for a solved board
saSolvedNever == FALSE

\* if currentCost == 0, at the head of singleRun's loop
saSolved == currentCost = 0

\* the loop test of singleRun
saLoopGuard ==
    /\ iter < Min(saMaxIterations(n), SAIterationCap)
    /\ temperature > minTemp

\* singleRun has returned: its locals are gone
saLocalsGone ==
    /\ iter' = 0
    /\ hadZero' = FALSE
    /\ temperature' = 0
    /\ currentCost' = 0
    /\ bestCost' = 0
    /\ bestBoard' = <<>>

\* a singleRun that never records a new best board
saTracksBestNever(accepted, cost1) == FALSE

\* if currentCost < bestCost, inside the acceptance branch
saTracksBest(accepted, cost1) == accepted /\ cost1 < bestCost

\* singleRun from the acceptance test to iter++, for a generated neighbor
\* and one outcome of the rand.Float64() draw
saFinishIteration(neighbor, accept) ==
    LET neighborCost == calculateCostForBoard(neighbor, n)
        deltaCost == neighborCost - currentCost
        accepted == deltaCost <= 0 \/ accept
        board1 == IF accepted THEN neighbor ELSE board
        cost1 == IF accepted THEN neighborCost ELSE currentCost
        improved == saTracksBest(accepted, cost1)
        bestCost1 == IF improved THEN cost1 ELSE bestCost
        bestBoard1 == IF improved THEN board1 ELSE bestBoard
        drift == iter % driftPeriod = 0 /\ cost1 > bestCost1 * 2
    IN /\ accept => (deltaCost > 0 /\ saCanAcceptWorse(deltaCost, temperature))
       /\ board' = (IF drift THEN bestBoard1 ELSE board1)
       /\ currentCost' = (IF drift THEN bestCost1 ELSE cost1)
       /\ bestCost' = bestCost1
       /\ bestBoard' = bestBoard1
       /\ temperature' = (IF drift THEN initialTemp(n) \div 2
                          ELSE (temperature * coolingRate) \div 100)
       /\ hadZero' = (hadZero \/ (accepted /\ neighborCost = 0))
       /\ iter' = iter + 1
       /\ pc' = "loop"

\* Solve entry: restart := 0
SASolve ==
    /\ solver = "sa" /\ pc = "idle" /\ calls < callLimit
    /\ calls' = calls + 1
    /\ restart' = 0
    /\ runsStarted' = 0
    /\ runsFailed' = 0
    /\ pc' = "run"
    /\ UNCHANGED <<solver, n, callLimit, result, out, board, solution, solved, iter, stack,
                   greedyVars, saVars, gaVars, fnVars>>

\* restart < sa.restarts: singleRun is called and runs up to its loop
SAStartRun ==
    /\ solver = "sa" /\ pc = "run" /\ restart < restarts
    /\ runsStarted' = runsStarted + 1
    /\ UNCHANGED runsFailed
    /\ \E perm \in Perms(n) :
          /\ board' = perm
          /\ bestBoard' = perm
          /\ currentCost' = calculateCostForBoard(perm, n)
          /\ bestCost' = calculateCostForBoard(perm, n)
          /\ hadZero' = (calculateCostForBoard(perm, n) = 0)
    /\ temperature' = initialTemp(n)
    /\ iter' = 0
    /\ pc' = "loop"
    /\ UNCHANGED <<common, result, out, solution, solved, restart, stack,
                   pos1, gaVars, fnVars>>

\* the restart loop ran out: Solve returns false
SAReturnFalse ==
    /\ solver = "sa" /\ pc = "run" /\ restart >= restarts
    /\ result' = "false"
    /\ restart' = 0
    /\ pc' = "idle"
    /\ UNCHANGED <<common, out, board, solution, solved, iter, runs,
                   stack, greedyVars, saVars, gaVars, fnVars>>

\* currentCost == 0 at the loop head: singleRun and Solve return true
SAFound ==
    /\ solver = "sa" /\ pc = "loop" /\ saLoopGuard /\ saSolved
    /\ solution' = board
    /\ solved' = TRUE
    /\ result' = "true"
    /\ restart' = 0
    /\ pc' = "idle"
    /\ saLocalsGone
    /\ UNCHANGED <<common, out, board, runs, stack, pos1, gaVars, fnVars>>

\* strategy < 0.6: pos1 and pos2 are drawn; equal draws enter the redraw loop
SASwapStep ==
    /\ solver = "sa" /\ pc = "loop" /\ saLoopGuard /\ ~saSolved
    /\ \E p1, p2 \in Cols(n) :
          IF p1 = p2
          THEN /\ pos1' = p1
               /\ pc' = "redraw"
               /\ UNCHANGED <<board, iter, temperature, currentCost, bestCost,
                              bestBoard, hadZero>>
          ELSE /\ \E accept \in BOOLEAN :
                     saFinishIteration(saSwapNeighbor(board, p1, p2), accept)
               /\ UNCHANGED pos1
    /\ UNCHANGED <<common, result, out, solution, solved, restart, runs,
                   stack, gaVars, fnVars>>

\* for pos1 == pos2 { pos2 = rand.Intn(sa.n) }: one redraw
SASwapRedraw ==
    /\ solver = "sa" /\ pc = "redraw"
    /\ \E p2 \in Cols(n) :
          IF pos1 = p2
          THEN UNCHANGED <<board, iter, temperature, currentCost, bestCost,
                           bestBoard, hadZero, pos1, pc>>
          ELSE /\ \E accept \in BOOLEAN :
                     saFinishIteration(saSwapNeighbor(board, pos1, p2), accept)
               /\ pos1' = 0
    /\ UNCHANGED <<common, result, out, solution, solved, restart, runs,
                   stack, gaVars, fnVars>>

\* 0.6 <= strategy < 0.8: move a conflicted queen
SAConflictedStep ==
    /\ solver = "sa" /\ pc = "loop" /\ saLoopGuard /\ ~saSolved
    /\ LET conflictedQueens == findConflictedQueens(board, n) IN
       IF conflictedQueens = {}
       THEN \E accept \in BOOLEAN : saFinishIteration(board, accept)
       ELSE \E col \in conflictedQueens, drawnRow \in Cols(n), accept \in BOOLEAN :
               saFinishIteration(saConflictedNeighbor(board, n, col, drawnRow),
                                 accept)
    /\ UNCHANGED <<common, result, out, solution, solved, restart, runs,
                   stack, pos1, gaVars, fnVars>>

\* strategy >= 0.8: local search on a drawn column
SALocalStep ==
    /\ solver = "sa" /\ pc = "loop" /\ saLoopGuard /\ ~saSolved
    /\ \E col \in Cols(n), accept \in BOOLEAN :
          saFinishIteration(saLocalNeighbor(board, n, col), accept)
    /\ UNCHANGED <<common, result, out, solution, solved, restart, runs,
                   stack, pos1, gaVars, fnVars>>

\* the loop has ended: copy(sa.board, bestBoard) and the final check; after a
\* failed run Solve counts restart++
SAEndRun ==
    /\ solver = "sa" /\ pc = "loop" /\ ~saLoopGuard
    /\ board' = bestBoard
    /\ IF bestCost = 0
       THEN /\ solution' = bestBoard
            /\ solved' = TRUE
            /\ result' = "true"
            /\ restart' = 0
            /\ pc' = "idle"
       ELSE /\ restart' = restart + 1
            /\ pc' = "run"
            /\ singleRunReturnsFalse
    /\ runsFailed' = (IF bestCost = 0 THEN runsFailed ELSE runsFailed + 1)
    /\ saLocalsGone
    /\ UNCHANGED <<common, out, runsStarted, stack, pos1, gaVars, fnVars>>

NextSA ==
    \/ SASolve \/ SAStartRun \/ SAReturnFalse \/ SAFound \/ SASwapStep
    \/ SASwapRedraw \/ SAConflictedStep \/ SALocalStep \/ SAEndRun

(***************************************************************************)
(* GeneticSolver (its source is the listing in README.md)                  *)
(***************************************************************************)
\* maxGenerations: 200
gaMaxGenerations == 200
\* tournamentSize := 5
tournamentSizeMax == 5
\* the attempts loop of smartMutation runs 3 times
mutationAttempts == 3

Idx == 0..(PopulationSize - 1)

\* popSize of NewGeneticSolver(k)
popSize(k) == IF k > 40 THEN 150 ELSE IF k > 20 THEN 120 ELSE 80

\* eliteSize of createNewGeneration, for a population of p individuals
eliteSizeOf(p) ==
    LET tenth == p \div 10
    IN IF tenth < 2 THEN 2 ELSE IF tenth > 10 THEN 10 ELSE tenth

eliteSize == eliteSizeOf(PopulationSize)

\* tournamentSize of tournamentSelection
tournamentSize ==
    IF tournamentSizeMax > PopulationSize THEN PopulationSize
    ELSE tournamentSizeMax

RECURSIVE calculateFitnessFrom(_, _, _, _, _)
calculateFitnessFrom(c, k, i, j, conflicts) ==
    IF i >= k THEN conflicts
    ELSE IF j >= k THEN calculateFitnessFrom(c, k, i + 1, i + 2, conflicts)
    ELSE calculateFitnessFrom(c, k, i, j + 1,
            conflicts + (IF c[i] = c[j] THEN 1 ELSE 0)
                      + (IF abs(c[i] - c[j]) = abs(i - j) THEN 1 ELSE 0))

\* a calculateFitness without the diagonal test
calculateFitnessRowsOnly(c, k) == Cardinality(RowPairs(c, k))

calculateFitness(c, k) == calculateFitnessFrom(c, k, 0, 1, 0)

RECURSIVE gaConflictsForPositionFrom(_, _, _, _, _)
gaConflictsForPositionFrom(c, k, col, j, conflicts) ==
    IF j >= k THEN conflicts
    ELSE IF j = col THEN gaConflictsForPositionFrom(c, k, col, j + 1, conflicts)
    ELSE gaConflictsForPositionFrom(c, k, col, j + 1,
            conflicts + (IF c[col] = c[j] THEN 1 ELSE 0)
                      + (IF abs(c[col] - c[j]) = abs(col - j) THEN 1 ELSE 0))

gaCalculateConflictsForPosition(c, k, col) ==
    gaConflictsForPositionFrom(c, k, col, 0, 0)

\* initializeIndividual: a fresh permutation, fitness 0
initializeIndividual(perm) == [chromosome |-> perm, fitness |-> 0]

\* the fitness loop of evaluatePopulation
evaluated(pop, k) ==
    [i \in Idx |-> [chromosome |-> pop[i].chromosome,
                    fitness |-> calculateFitness(pop[i].chromosome, k)]]

\* sort.Slice by fitness: every ascending arrangement (ties in any order)
sortedArrangements(pop) ==
    {[i \in Idx |-> pop[q[i]]] :
        q \in {r \in [Idx -> Idx] :
                 /\ \A a, b \in Idx : a # b => r[a] # r[b]
                 /\ \A a, b \in Idx :
                       a < b => pop[r[a]].fitness <= pop[r[b]].fitness}}

\* evaluatePopulation: the populations it can leave
evaluatePopulation(pop, k) == sortedArrangements(evaluated(pop, k))

\* tournamentSelection for one sequence of rand.Intn(populationSize) draws
RECURSIVE tournamentFrom(_, _, _, _)
tournamentFrom(pop, draws, i, best) ==
    IF i > tournamentSize THEN best
    ELSE LET candidate == pop[draws[i]]
         IN tournamentFrom(pop, draws, i + 1,
                IF candidate.fitness < best.fitness THEN candidate ELSE best)

\* the individuals tournamentSelection can return
tournamentSelection(pop) ==
    {tournamentFrom(pop, draws, 2, pop[draws[1]]) :
        draws \in [1..tournamentSize -> Idx]}

\* the fill loop of orderCrossover
RECURSIVE oxFill(_, _, _, _, _, _, _)
oxFill(child, parent2, used, k, end, i, childIndex) ==
    IF i >= k THEN child
    ELSE LET parent2Index == (end + 1 + i) % k
         IN IF parent2[parent2Index] \notin used
            THEN oxFill([child EXCEPT ![childIndex] = parent2[parent2Index]],
                        parent2, used, k, end, i + 1, (childIndex + 1) % k)
            ELSE oxFill(child, parent2, used, k, end, i + 1, childIndex)

\* an orderCrossover whose fill starts at child index 0
orderCrossoverFillFromZero(parent1, parent2, k, drawnStart, drawnEnd) ==
    LET start == IF drawnStart > drawnEnd THEN drawnEnd ELSE drawnStart
        end == IF drawnStart > drawnEnd THEN drawnStart ELSE drawnEnd
        segment == [i \in Cols(k) |->
                       IF start <= i /\ i <= end THEN parent1[i] ELSE 0]
        used == {parent1[i] : i \in start..end}
    IN oxFill(segment, parent2, used, k, end, 0, 0)

\* an orderCrossover whose child starts out as -1 at every index
orderCrossoverFromMinusOne(parent1, parent2, k, drawnStart, drawnEnd) ==
    LET start == IF drawnStart > drawnEnd THEN drawnEnd ELSE drawnStart
        end == IF drawnStart > drawnEnd THEN drawnStart ELSE drawnEnd
        segment == [i \in Cols(k) |->
                       IF start <= i /\ i <= end THEN parent1[i] ELSE -1]
        used == {parent1[i] : i \in start..end}
    IN oxFill(segment, parent2, used, k, end, 0, (end + 1) % k)

\* orderCrossover for the drawn start and end
orderCrossover(parent1, parent2, k, drawnStart, drawnEnd) ==
    LET start == IF drawnStart > drawnEnd THEN drawnEnd ELSE drawnStart
        end == IF drawnStart > drawnEnd THEN drawnStart ELSE drawnEnd
        segment == [i \in Cols(k) |->
                       IF start <= i /\ i <= end THEN parent1[i] ELSE 0]
        used == {parent1[i] : i \in start..end}
    IN oxFill(segment, parent2, used, k, end, 0, (end + 1) % k)

\* smartCrossover: the children two parents can give
smartCrossover(parent1, parent2, k) ==
    {orderCrossover(parent1.chromosome, parent2.chromosome, k, s, e) :
        s \in Cols(k), e \in Cols(k)}

\* one pass of the attempts loop of smartMutation's conflict-directed branch,
\* for testRow # chromosome[col]: the row is written, its conflicts counted,
\* and the original row restored; s is [chromosome, bestRow, minConflicts]
gaTry(s, k, col, testRow) ==
    LET originalRow == s.chromosome[col]
        moved == [s.chromosome EXCEPT ![col] = testRow]
        conflicts == gaCalculateConflictsForPosition(moved, k, col)
        better == conflicts < s.minConflicts
    IN [chromosome |-> [moved EXCEPT ![col] = originalRow],
        bestRow |-> IF better THEN testRow ELSE s.bestRow,
        minConflicts |-> IF better THEN conflicts ELSE s.minConflicts]

\* the attempts loop, for the drawn column and the drawn test rows (t is the
\* state after the pass)
RECURSIVE gaAttempts(_, _, _, _, _)
gaAttempts(s, k, col, testRows, attempts) ==
    IF attempts > mutationAttempts THEN s
    ELSE IF testRows[attempts] = s.chromosome[col]
    THEN gaAttempts(s, k, col, testRows, attempts + 1)
    ELSE CHOOSE r \in {gaAttempts(t, k, col, testRows, attempts + 1) :
                          t \in {gaTry(s, k, col, testRows[attempts])}} : TRUE

\* strategy < 0.5: swap two drawn positions (which may be equal)
gaSwapMutation(c, k) ==
    {[c EXCEPT ![p1] = c[p2], ![p2] = c[p1]] : p1 \in Cols(k), p2 \in Cols(k)}

\* strategy >= 0.8, and the fallback of the conflict-directed branch
gaRandomMutation(c, k) ==
    {[c EXCEPT ![pos] = row] : pos \in Cols(k), row \in Cols(k)}

\* 0.5 <= strategy < 0.8: move a conflicted queen
gaRepairMutation(c, k) ==
    LET conflicts == {i \in Cols(k) : gaCalculateConflictsForPosition(c, k, i) > 0}
    IN IF conflicts # {}
       THEN {LET s == gaAttempts(
                        [chromosome |-> c, bestRow |-> c[col],
                         minConflicts |-> gaCalculateConflictsForPosition(c, k, col)],
                        k, col, testRows, 1)
             IN [s.chromosome EXCEPT ![col] = s.bestRow] :
                col \in conflicts, testRows \in [1..mutationAttempts -> Cols(k)]}
       ELSE gaRandomMutation(c, k)

\* smartMutation: the chromosomes it can leave in place of c
smartMutation(c, k) ==
    gaSwapMutation(c, k) \cup gaRepairMutation(c, k) \cup gaRandomMutation(c, k)

\* rand.Float64() < ga.mutationRate: both outcomes while the rate is in (0,1)
maybeMutated(c, k, rate) ==
    (IF rate < 100 THEN {c} ELSE {}) \cup (IF rate > 0 THEN smartMutation(c, k) ELSE {})

\* the chromosomes one non-elite slot of createNewGeneration can receive:
\* crossover of two tournament winners or a copy of one, then maybe mutation
newChromosomes(pop, k, rate) ==
    UNION {LET crossed == UNION {smartCrossover(p1, p2, k) :
                                    p1 \in winners, p2 \in winners}
               copied == {p.chromosome : p \in winners}
           IN UNION {maybeMutated(c, k, rate) : c \in crossed \cup copied} :
              winners \in {tournamentSelection(pop)}}

\* createNewGeneration: the populations it can return
createNewGeneration(pop, k, rate) ==
    LET children == newChromosomes(pop, k, rate)
    IN {[i \in Idx |-> IF i < eliteSize
                       THEN [chromosome |-> pop[i].chromosome,
                             fitness |-> pop[i].fitness]
                       ELSE [chromosome |-> f[i], fitness |-> 0]] :
          f \in [eliteSize..(PopulationSize - 1) -> children]}

\* a diversity injection that re-initialises the whole population
injectionFromStart(p) == 0

\* the first index of the diversity injection: populationSize * 4 / 5
injectionStart(p) == (p * 4) \div 5

\* the diversity injection of singleRun: the worst fifth is re-initialised
injected(pop, k) ==
    LET from == injectionStart(PopulationSize)
    IN {[i \in Idx |-> IF i >= from THEN initializeIndividual(f[i]) ELSE pop[i]] :
          f \in [from..(PopulationSize - 1) -> Perms(k)]}

\* an adaptation that leaves the rate as it is when the run is not stalled
adaptiveRateSticky(stalled) ==
    IF stalled > AdaptThreshold THEN 30 ELSE mutationRate

\* the adaptive mutation rate of singleRun, as a percentage: 0.3 when
\* generationsWithoutImprovement exceeds the threshold, else 0.15
adaptiveRate(stalled) == IF stalled > AdaptThreshold THEN 30 ELSE 15

\* singleRun has returned: its locals are gone
gaLocalsGone ==
    /\ generation' = 0
    /\ generationsWithoutImprovement' = 0
    /\ bestFitnessEver' = 0

\* the end of singleRun: the final evaluatePopulation and check; after a
\* failed run Solve counts restart++
gaFinalCheck(pop) ==
    \E final \in evaluatePopulation(pop, n) :
       /\ population' = final
       /\ IF final[0].fitness = 0
          THEN /\ solution' = final[0].chromosome
               /\ solved' = TRUE
               /\ result' = "true"
               /\ restart' = 0
               /\ pc' = "idle"
               /\ UNCHANGED runsFailed
          ELSE /\ restart' = restart + 1
               /\ runsFailed' = runsFailed + 1
               /\ pc' = "run"
               /\ singleRunReturnsFalse
       /\ gaLocalsGone

\* Solve entry: restart := 0
GASolve ==
    /\ solver = "ga" /\ pc = "idle" /\ calls < callLimit
    /\ calls' = calls + 1
    /\ restart' = 0
    /\ runsStarted' = 0
    /\ runsFailed' = 0
    /\ pc' = "run"
    /\ UNCHANGED <<solver, n, callLimit, result, out, board, solution, solved, iter, stack,
                   greedyVars, saVars, gaVars, fnVars>>

\* restart < ga.restarts: singleRun is called and runs up to its loop
GAStartRun ==
    /\ solver = "ga" /\ pc = "run" /\ restart < restarts
    /\ runsStarted' = runsStarted + 1
    /\ UNCHANGED runsFailed
    /\ population' \in [Idx -> {initializeIndividual(perm) : perm \in Perms(n)}]
    /\ generationsWithoutImprovement' = 0
    /\ bestFitnessEver' = n * n
    /\ generation' = 0
    /\ pc' = "generation"
    /\ UNCHANGED <<common, result, out, board, solution, solved, iter, restart,
                   stack, greedyVars, saVars, mutationRate, fnVars>>

\* the restart loop ran out: Solve returns false
GAReturnFalse ==
    /\ solver = "ga" /\ pc = "run" /\ restart >= restarts
    /\ result' = "false"
    /\ restart' = 0
    /\ pc' = "idle"
    /\ UNCHANGED <<common, out, board, solution, solved, iter, runs,
                   stack, greedyVars, saVars, gaVars, fnVars>>

\* one pass of the generation loop up to the call of createNewGeneration:
\* evaluation, the solution check, progress tracking, the stagnation break
\* (which leaves the loop for the final check) and the adaptation
GAEvaluate ==
    /\ solver = "ga" /\ pc = "generation"
    /\ \E pop \in evaluatePopulation(population, n) :
          IF pop[0].fitness = 0
          THEN /\ population' = pop
               /\ solution' = pop[0].chromosome
               /\ solved' = TRUE
               /\ result' = "true"
               /\ restart' = 0
               /\ pc' = "idle"
               /\ gaLocalsGone
               /\ UNCHANGED <<mutationRate, runsFailed>>
          ELSE LET currentBest == pop[0].fitness
                   improved == currentBest < bestFitnessEver
                   stalled == IF improved THEN 0
                              ELSE generationsWithoutImprovement + 1
               IN IF stalled > StagnationLimit
                  THEN /\ gaFinalCheck(pop)
                       /\ UNCHANGED mutationRate
                  ELSE /\ bestFitnessEver' = (IF improved THEN currentBest
                                              ELSE bestFitnessEver)
                       /\ generationsWithoutImprovement' = stalled
                       /\ mutationRate' = adaptiveRate(stalled)
                       /\ IF stalled > AdaptThreshold
                          THEN population' \in injected(pop, n)
                          ELSE population' = pop
                       /\ pc' = "create"
                       /\ UNCHANGED <<solution, solved, result, restart,
                                      runsFailed, generation>>
    /\ UNCHANGED <<common, out, board, iter, runsStarted, stack, greedyVars,
                   saVars, fnVars>>

\* newPopulation := ga.createNewGeneration(); ga.population = newPopulation;
\* generation++ and the loop test; when the loop has run out, the final check
GACreate ==
    /\ solver = "ga" /\ pc = "create"
    /\ \E newPopulation \in createNewGeneration(population, n, mutationRate) :
          IF generation + 1 < Min(gaMaxGenerations, GenerationCap)
          THEN /\ population' = newPopulation
               /\ generation' = generation + 1
               /\ pc' = "generation"
               /\ UNCHANGED <<solution, solved, result, restart, runsFailed,
                              generationsWithoutImprovement, bestFitnessEver>>
          ELSE gaFinalCheck(newPopulation)
    /\ UNCHANGED <<common, out, board, iter, runsStarted, stack, greedyVars,
                   saVars, mutationRate, fnVars>>

NextGA == GASolve \/ GAStartRun \/ GAReturnFalse \/ GAEvaluate \/ GACreate

(***************************************************************************)
(* ExhaustiveSearchSolver                                                  *)
(*                                                                         *)
(* stack holds the loop variable col of every active solveRecursive frame  *)
(* that has reached its loop; the frame of row r is stack[r + 1].          *)
(***************************************************************************)
\* isSafe(row, col)
RECURSIVE isSafeFrom(_, _, _, _)
isSafeFrom(b, row, col, i) ==
    IF i >= row THEN TRUE
    ELSE IF b[i] = col THEN FALSE
    ELSE IF abs(b[i] - col) = abs(i - row) THEN FALSE
    ELSE isSafeFrom(b, row, col, i + 1)

\* an isSafe without the diagonal test
isSafeColumnOnly(b, row, col) == \A i \in 0..(row - 1) : b[i] # col

isSafe(b, row, col) == isSafeFrom(b, row, col, 0)

\* a solveRecursive call returns to the frame below, or to Solve, which
\* returns e.solutionFound
exReturn(frames, found) ==
    /\ stack' = frames
    /\ IF frames = <<>>
       THEN /\ result' = (IF found THEN "true" ELSE "false")
            /\ pc' = "idle"
       ELSE /\ pc' = "returned"
            /\ UNCHANGED result

\* Solve entry: e.solutionFound = false; e.solveRecursive(0)
ExhaustiveSolve ==
    /\ solver = "exhaustive" /\ pc = "idle" /\ calls < callLimit
    /\ calls' = calls + 1
    /\ solved' = FALSE
    /\ stack' = <<>>
    /\ pc' = "enter"
    /\ UNCHANGED <<solver, n, callLimit, result, out, board, solution, iter, restart,
                   runs, greedyVars, saVars, gaVars, fnVars>>

\* solveRecursive(row) up to its loop, row being the number of frames below
ExhaustiveEnter ==
    /\ solver = "exhaustive" /\ pc = "enter"
    /\ LET row == Len(stack) IN
       IF solved
       THEN /\ exReturn(stack, solved)
            /\ UNCHANGED <<solution, solved>>
       ELSE IF row = n
       THEN /\ solution' = board
            /\ solved' = TRUE
            /\ exReturn(stack, TRUE)
       ELSE /\ stack' = Append(stack, 0)
            /\ pc' = "loop"
            /\ UNCHANGED <<solution, solved, result>>
    /\ UNCHANGED <<common, out, board, iter, restart, runs, greedyVars,
                   saVars, gaVars, fnVars>>

\* the loop test and the isSafe test of the top frame
ExhaustiveLoop ==
    /\ solver = "exhaustive" /\ pc = "loop"
    /\ LET row == Len(stack) - 1
           col == stack[Len(stack)]
       IN IF col >= n
          THEN /\ exReturn(SubSeq(stack, 1, row), solved)
               /\ UNCHANGED board
          ELSE IF isSafe(board, row, col)
          THEN /\ board' = [board EXCEPT ![row] = col]
               /\ pc' = "enter"
               /\ UNCHANGED <<stack, result>>
          ELSE /\ stack' = [stack EXCEPT ![row + 1] = col + 1]
               /\ UNCHANGED <<board, pc, result>>
    /\ UNCHANGED <<common, out, solution, solved, iter, restart, runs,
                   greedyVars, saVars, gaVars, fnVars>>

\* the recursive call has returned to the top frame
ExhaustiveReturned ==
    /\ solver = "exhaustive" /\ pc = "returned"
    /\ LET row == Len(stack) - 1
           col == stack[Len(stack)]
       IN IF solved
          THEN exReturn(SubSeq(stack, 1, row), solved)
          ELSE /\ stack' = [stack EXCEPT ![row + 1] = col + 1]
               /\ pc' = "loop"
               /\ UNCHANGED result
    /\ UNCHANGED <<common, out, board, solution, solved, iter, restart,
                   runs, greedyVars, saVars, gaVars, fnVars>>

NextExhaustive ==
    \/ ExhaustiveSolve \/ ExhaustiveEnter \/ ExhaustiveLoop
    \/ ExhaustiveReturned

(***************************************************************************)
(* The pure functions, called on drawn arguments                           *)
(***************************************************************************)
\* countConflicts, calculateCostForBoard and calculateFitness are each called
\* on args.board: the three values returned and the board as the calls
\* leave it (none of them writes to its receiver or its argument)
CallObjectives ==
    /\ solver = "objective" /\ pc = "idle"
    /\ ret' = [countConflicts |-> countConflicts(args.board, n),
               calculateCostForBoard |-> calculateCostForBoard(args.board, n),
               calculateFitness |-> calculateFitness(args.board, n),
               board |-> args.board]
    /\ pc' = "returned"
    /\ UNCHANGED <<common, result, out, board, solution, solved, iter, restart,
                   runs, stack, greedyVars, saVars, gaVars, args>>

NextObjective == CallObjectives

\* a call of orderCrossover on args.parent1 and args.parent2: the drawn
\* start and end and the child returned
CallOrderCrossover ==
    /\ solver = "crossover" /\ pc = "idle"
    /\ \E s \in Cols(n), e \in Cols(n) :
          ret' = [start |-> s, end |-> e,
                  child |-> orderCrossover(args.parent1, args.parent2, n, s, e)]
    /\ pc' = "returned"
    /\ UNCHANGED <<common, result, out, board, solution, solved, iter, restart,
                   runs, stack, greedyVars, saVars, gaVars, args>>

NextCrossover == CallOrderCrossover

\* the conflicted-queen strategy of generateSmartNeighbor is applied to the
\* working board args.board: the column and the initial bestRow it draws
\* and the neighbor it returns (no column when no queen is in conflict)
CallConflictedNeighbor ==
    /\ solver = "neighbor" /\ pc = "idle"
    /\ LET conflictedQueens == findConflictedQueens(args.board, n) IN
       IF conflictedQueens = {}
       THEN ret' = [col |-> -1, neighbor |-> args.board]
       ELSE \E col \in conflictedQueens, drawnRow \in Cols(n) :
               ret' = [col |-> col,
                       neighbor |-> saConflictedNeighbor(args.board, n, col,
                                                         drawnRow)]
    /\ pc' = "returned"
    /\ UNCHANGED <<common, result, out, board, solution, solved, iter, restart,
                   runs, stack, greedyVars, saVars, gaVars, args>>

NextNeighbor == CallConflictedNeighbor

\* the body of Solve's loop from `// Find the best neighbor` to the end of
\* the iteration, on the board args.board with conflicts > 0: ret records
\* the sweep's outcome and whether randomInit was called
CallGreedyIteration ==
    /\ solver = "iteration" /\ pc = "idle"
    /\ board = args.board
    /\ \E conflicts \in {countConflicts(board, n)} :
          /\ conflicts > 0
          /\ board' \in greedyMove(board, n, conflicts)
          /\ \E s \in {greedySweep([board |-> board, bestBoard |-> board,
                                    bestConflicts |-> conflicts], n, 0, 0)} :
                ret' = [conflicts |-> conflicts,
                        sweep |-> s,
                        randomInit |-> s.bestConflicts >= conflicts]
    /\ pc' = "returned"
    /\ UNCHANGED <<common, result, out, solution, solved, iter, hadZero,
                   restart, runs, stack, saVars, gaVars, args>>

NextGreedyIteration == CallGreedyIteration

(***************************************************************************)
(* Specifications                                                          *)
(***************************************************************************)
\* what the constructors leave of the state no solver type uses
InitLocals ==
    /\ pc = "idle"
    /\ calls = 0
    /\ result = "none"
    /\ out = <<>>
    /\ solution = <<>>
    /\ solved = FALSE
    /\ iter = 0
    /\ hadZero = FALSE
    /\ restart = 0
    /\ runsStarted = 0
    /\ runsFailed = 0
    /\ temperature = 0
    /\ currentCost = 0
    /\ bestCost = 0
    /\ bestBoard = <<>>
    /\ pos1 = 0
    /\ generation = 0
    /\ generationsWithoutImprovement = 0
    /\ bestFitnessEver = 0
    /\ stack = <<>>
    /\ ret = <<>>

\* the same, with a caller that calls Solve at most MaxCalls times
InitRest == InitLocals /\ callLimit = MaxCalls

\* NewGreedySolver(n)
InitGreedy ==
    /\ solver = "greedy"
    /\ n \in 1..MaxN
    /\ board = ZeroBoard(n)
    /\ population = <<>>
    /\ mutationRate = 0
    /\ args = <<>>
    /\ InitRest

\* NewSimulatedAnnealingSolver(n)
InitSA ==
    /\ solver = "sa"
    /\ n \in 1..MaxN
    /\ board = ZeroBoard(n)
    /\ population = <<>>
    /\ mutationRate = 0
    /\ args = <<>>
    /\ InitRest

\* NewGeneticSolver(n): a population of zero Individuals, mutationRate 0.15
InitGA ==
    /\ solver = "ga"
    /\ n \in 1..GAMaxN
    /\ board = <<>>
    /\ population = [i \in Idx |-> [chromosome |-> <<>>, fitness |-> 0]]
    /\ mutationRate = 15
    /\ args = <<>>
    /\ InitRest

\* NewExhaustiveSearchSolver(n)
InitExhaustive ==
    /\ solver = "exhaustive"
    /\ n \in 1..ExhaustiveMaxN
    /\ board = ZeroBoard(n)
    /\ population = <<>>
    /\ mutationRate = 0
    /\ args = <<>>
    /\ InitRest

\* an objective function is about to be called on any board
InitObjective ==
    /\ solver = "objective"
    /\ n \in 1..MaxN
    /\ args \in {[board |-> b] : b \in Boards(n)}
    /\ board = <<>>
    /\ population = <<>>
    /\ mutationRate = 0
    /\ InitRest

\* orderCrossover is about to be called on any two permutations
InitCrossover ==
    /\ solver = "crossover"
    /\ n \in 1..MaxN
    /\ args \in {[parent1 |-> p1, parent2 |-> p2] : p1 \in Perms(n), p2 \in Perms(n)}
    /\ board = <<>>
    /\ population = <<>>
    /\ mutationRate = 0
    /\ InitRest

\* orderCrossover is about to be called on any two chromosomes, permutations
\* or not (mutation can leave either)
InitCrossoverAny ==
    /\ solver = "crossover"
    /\ n \in 1..MaxN
    /\ args \in {[parent1 |-> p1, parent2 |-> p2] : p1 \in Boards(n), p2 \in Boards(n)}
    /\ board = <<>>
    /\ population = <<>>
    /\ mutationRate = 0
    /\ InitRest

\* Solve is at the head of its loop with any board in g.board
InitGreedyIteration ==
    /\ solver = "iteration"
    /\ n \in 1..MaxN
    /\ args \in {[board |-> b] : b \in Boards(n)}
    /\ board = args.board
    /\ population = <<>>
    /\ mutationRate = 0
    /\ InitRest

\* Solve of a GeneticSolver is about to start its last run: four runs have
\* failed, the last of them with every individual the identity permutation
InitGALastRun ==
    /\ solver = "ga"
    /\ n \in 2..GARunMaxN
    /\ board = <<>>
    /\ population = [i \in Idx |-> [chromosome |-> [c \in Cols(n) |-> c],
                                    fitness |-> (n * (n - 1)) \div 2]]
    /\ mutationRate \in {15, 30}
    /\ args = <<>>
    /\ pc = "run"
    /\ calls = 1
    /\ callLimit = MaxCalls
    /\ result = "none"
    /\ out = <<>>
    /\ solution = <<>>
    /\ solved = FALSE
    /\ iter = 0
    /\ hadZero = FALSE
    /\ restart = restarts - 1
    /\ runsStarted = restarts - 1
    /\ runsFailed = restarts - 1
    /\ temperature = 0
    /\ currentCost = 0
    /\ bestCost = 0
    /\ bestBoard = <<>>
    /\ pos1 = 0
    /\ generation = 0
    /\ generationsWithoutImprovement = 0
    /\ bestFitnessEver = 0
    /\ stack = <<>>
    /\ ret = <<>>

\* a heuristic solver as constructed, with a caller that calls Solve
\* CallSequenceLength times
InitCalls ==
    /\ solver \in {"greedy", "sa", "ga"}
    /\ n \in 1..(IF solver = "ga" THEN GAMaxN ELSE MaxN)
    /\ board = (IF solver = "ga" THEN <<>> ELSE ZeroBoard(n))
    /\ population = (IF solver = "ga"
                     THEN [i \in Idx |-> [chromosome |-> <<>>, fitness |-> 0]]
                     ELSE <<>>)
    /\ mutationRate = (IF solver = "ga" THEN 15 ELSE 0)
    /\ args = <<>>
    /\ InitLocals
    /\ callLimit = CallSequenceLength

\* generateSmartNeighbor is about to be called on any working board
InitNeighbor ==
    /\ solver = "neighbor"
    /\ n \in 1..MaxN
    /\ args \in {[board |-> b] : b \in Boards(n)}
    /\ board = <<>>
    /\ population = <<>>
    /\ mutationRate = 0
    /\ InitRest

\* the three heuristic solvers and the harness's PrintSolution
Init == InitGreedy \/ InitSA \/ InitGA

Next == NextGreedy \/ NextSA \/ NextGA \/ PrintSolution

Spec == Init /\ [][Next]_vars

SpecGreedy == InitGreedy /\ [][NextGreedy \/ PrintSolution]_vars

SpecSA == InitSA /\ [][NextSA \/ PrintSolution]_vars

SpecGA == InitGA /\ [][NextGA \/ PrintSolution]_vars

SpecExhaustive == InitExhaustive /\ [][NextExhaustive]_vars

SpecObjective == InitObjective /\ [][NextObjective]_vars

SpecCrossover == InitCrossover /\ [][NextCrossover]_vars

\* the heuristic solvers, and orderCrossover on any two chromosomes
SpecBoards == (Init \/ InitCrossoverAny) /\ [][Next \/ NextCrossover]_vars

SpecNeighbor == InitNeighbor /\ [][NextNeighbor]_vars

SpecGreedyIteration == InitGreedyIteration /\ [][NextGreedyIteration]_vars

\* the steps of Solve once it has been entered
NextGARun == GAStartRun \/ GAReturnFalse \/ GAEvaluate \/ GACreate

SpecGARun == InitGALastRun /\ [][NextGARun]_vars

\* the Solve calls of the heuristic solvers, without PrintSolution
NextCalls == NextGreedy \/ NextSA \/ NextGA

SpecCalls == InitCalls /\ [][NextCalls]_vars

\* the scheduler runs the program: a step that can be taken is taken
FairSpec == Spec /\ WF_vars(Next)

\* the same program on the boards without a solution and the 1x1 board
InitSmall == Init /\ n <= 3

FairSpecSmall == InitSmall /\ [][Next]_vars /\ WF_vars(Next)

FairSpecExhaustive == SpecExhaustive /\ WF_vars(NextExhaustive)

(***************************************************************************)
(* Properties                                                              *)
(***************************************************************************)
returned == pc = "idle" /\ result # "none"

\* C1: whenever Solve of the greedy, annealing or genetic solver has
\* returned true, the board GetSolution returns has one queen per column at
\* a row in [0, n), no two queens in a row and no two on a diagonal.
C1_TrueMeansNoConflicts ==
    (returned /\ result = "true") => solved /\ NonAttacking(solution, n)

\* annealing has returned true on a 4x4 board, from a run after the first
C1_Witness ==
    /\ solver = "sa" /\ n = 4 /\ returned /\ result = "true"
    /\ runsStarted >= 2 /\ NonAttacking(solution, 4)

\* C2: the greedy Solve returns true exactly when the board held zero
\* conflicts at some point of that call, the board left by the last
\* iteration's move or re-initialisation included.  (Solve does not count
\* the conflicts of the board its last iteration leaves.)
C2_TrueIffBoardHadZeroConflicts ==
    (solver = "greedy" /\ returned) => (result = "true" <=> hadZero)

\* C3: for n = 1 every heuristic solver terminates, returns true with the
\* solution [0], and simulated annealing never enters neighbour generation
\* (no iteration of its loop completes and the redraw loop is never entered).
C3_SizeOne ==
    /\ [](n = 1 => pc # "redraw" /\ iter = 0)
    /\ [](n = 1 /\ returned => result = "true" /\ solved /\ solution = ZeroBoard(1))
    /\ ((n = 1 /\ pc # "idle") ~> (n = 1 /\ returned))

\* annealing has returned from its first run on a 1x1 board
C3_Witness ==
    /\ solver = "sa" /\ n = 1 /\ returned /\ result = "true"
    /\ runsStarted = 1 /\ solution = ZeroBoard(1)

C5_AtMostFiveRuns ==
    solver \in {"sa", "ga"} =>
        /\ runsStarted <= 5
        /\ pc = "run" => runsStarted = runsFailed
        /\ pc \notin {"idle", "run"} => runsStarted = runsFailed + 1
        /\ (returned /\ result = "true") => runsStarted = runsFailed + 1
        /\ (returned /\ result = "false") => runsStarted = 5 /\ runsFailed = 5

\* annealing has returned true from its third run after two failed runs
C5_Witness ==
    /\ solver = "sa" /\ returned /\ result = "true"
    /\ runsStarted = 3 /\ runsFailed = 2

\* C6: for permutations parent1 and parent2 of 0..n-1 and any drawn start
\* and end, orderCrossover returns a permutation of 0..n-1 that equals
\* parent1 at every index of the chosen segment.
C6_CrossoverGivesPermutation ==
    (solver = "crossover" /\ pc = "returned") =>
        LET start == Min(ret.start, ret.end)
            end == IF ret.start > ret.end THEN ret.start ELSE ret.end
        IN /\ ret.child \in Perms(n)
           /\ \A i \in start..end : ret.child[i] = args.parent1[i]

\* a crossover of two different permutations of 0..3 whose draws came out
\* in reverse order and whose child is neither parent
C6_Witness ==
    /\ solver = "crossover" /\ pc = "returned" /\ n = 4
    /\ ret.start = 2 /\ ret.end = 1
    /\ ret.child # args.parent1 /\ ret.child # args.parent2

\* C7: after a successful Solve, PrintSolution prints an n x n grid whose
\* cell at line r, position c is a queen exactly when r = solution[c].
\* (PrintSolution prints the queen of line r at position solution[r].)
C7_QueenAtLineSolutionOfPosition ==
    (solver \in {"greedy", "sa", "ga"} /\ solved /\ out # <<>>) =>
        \A r, c \in Cols(n) : out[r][c] = "Q" <=> r = solution[c]

\* C8: the exhaustive Solve terminates, returns true exactly when a
\* placement of n non-attacking queens exists (false for n = 2 and 3, true
\* for n = 1 and n >= 4), and then the solution is such a placement.
C8_ExhaustiveDecides ==
    /\ [](returned =>
            /\ result = "true" <=> \E b \in Perms(n) : NonAttacking(b, n)
            /\ result = "true" <=> n \notin {2, 3}
            /\ result = "true" => solved /\ NonAttacking(solution, n))
    /\ ((pc # "idle") ~> returned)

\* the exhaustive search has backtracked to the first 4x4 placement
C8_Witness ==
    /\ solver = "exhaustive" /\ n = 4 /\ returned /\ result = "true"
    /\ solution = [i \in Cols(4) |-> <<1, 3, 0, 2>>[i + 1]]

\* C9: on any board of length n with values in [0, n), countConflicts,
\* calculateCostForBoard and calculateFitness return the same value, the
\* number of pairs in a row plus the number of pairs on a diagonal, and
\* leave the board as it was.
C9_ObjectivesCountPairs ==
    (solver = "objective" /\ pc = "returned") =>
        LET pairs == Cardinality(RowPairs(args.board, n))
                     + Cardinality(DiagonalPairs(args.board, n))
        IN /\ ret.countConflicts = pairs
           /\ ret.calculateCostForBoard = pairs
           /\ ret.calculateFitness = pairs
           /\ ret.board = args.board

\* the objectives have been called on a 4x4 board with pairs of both kinds
C9_Witness ==
    /\ solver = "objective" /\ pc = "returned" /\ n = 4
    /\ RowPairs(args.board, 4) # {} /\ DiagonalPairs(args.board, 4) # {}
    /\ ret.countConflicts = 3

\* C10: whenever tournamentSelection is about to compare individuals, the
\* cached fitness of every individual of the population equals the conflict
\* count of its chromosome, individuals injected for diversity included.
\* (The injected individuals carry fitness 0 until the next evaluation.)
C10_CachedFitnessIsConflictCount ==
    (solver = "ga" /\ pc = "create") =>
        \A i \in Idx :
            population[i].fitness
                = Cardinality(RowPairs(population[i].chromosome, n))
                  + Cardinality(DiagonalPairs(population[i].chromosome, n))

\* C11: in every reachable state of a heuristic solver, every board it
\* holds has length n and values in [0, n): the working board, annealing's
\* bestBoard and every neighbor it can generate, every chromosome of the
\* genetic population, every child of orderCrossover (from parents that are
\* not permutations too), and the stored solution.  A nil slice (the
\* solution before a success, a chromosome before the first Solve) is no
\* board.
C11_BoardsInRange ==
    /\ solver \in {"greedy", "sa"} => board \in Boards(n)
    /\ (solver = "sa" /\ pc \in {"loop", "redraw"}) =>
          /\ bestBoard \in Boards(n)
          /\ generateSmartNeighbor(board, n) \subseteq Boards(n)
    /\ (solver = "ga" /\ calls > 0 /\ pc # "run") =>
          \A i \in Idx : population[i].chromosome \in Boards(n)
    /\ (solver = "crossover" /\ pc = "returned") => ret.child \in Boards(n)
    /\ solution # <<>> => solution \in Boards(n)
    /\ solved => solution \in Boards(n)

\* orderCrossover has returned a child with an index left unfilled, from
\* two parents of length 4 that are not permutations
C11_Witness ==
    /\ solver = "crossover" /\ pc = "returned" /\ n = 4
    /\ args.parent1 \notin Perms(4) /\ args.parent2 \notin Perms(4)
    /\ ret.start = 1 /\ ret.end = 1
    /\ {ret.child[i] : i \in Cols(4)} = {0, 1}
    /\ args.parent2 = [i \in Cols(4) |-> 1]

\* C12: every time the genetic solver builds a next generation, the
\* mutation rate in force is 0.30 if the run's generationsWithoutImprovement
\* exceeds the adaptation threshold and 0.15 otherwise; the first generation
\* of every run, a run that follows a run abandoned at rate 0.30 included,
\* is built with 0.15.
C12_RateInForce ==
    (solver = "ga" /\ pc = "create") =>
        /\ mutationRate =
              (IF generationsWithoutImprovement > AdaptThreshold THEN 30 ELSE 15)
        /\ generation = 0 => mutationRate = 15

\* the first generation of a third run is about to be built, after two runs
\* that were abandoned for stagnation
C12_Witness ==
    /\ solver = "ga" /\ pc = "create" /\ n = 2
    /\ runsFailed = 2 /\ generation = 0 /\ mutationRate = 15

\* the queens that share a row or a diagonal with the queen of column col,
\* each counted once per kind of attack
LocalConflicts(b, k, col) ==
    Cardinality({j \in Cols(k) \ {col} : b[j] = b[col]})
    + Cardinality({j \in Cols(k) \ {col} : abs(b[j] - b[col]) = abs(j - col)})

\* C13: in annealing's conflicted-column strategy, for n >= 2 and a working
\* board of cost > 0, the neighbor differs from the working board in at most
\* the chosen column, that column was in conflict on the working board, and
\* the row given to it has a column-local conflict count that is minimal
\* over all n rows for that column.  (The scan leaves out the row the queen
\* is on, so the queen can be moved to a row with more conflicts.)
C13_ConflictedMoveIsMinimal ==
    (solver = "neighbor" /\ pc = "returned" /\ n >= 2
        /\ RowPairs(args.board, n) \cup DiagonalPairs(args.board, n) # {}) =>
        /\ ret.col \in Cols(n)
        /\ \A i \in Cols(n) \ {ret.col} : ret.neighbor[i] = args.board[i]
        /\ LocalConflicts(args.board, n, ret.col) > 0
        /\ \A row \in Cols(n) :
              LocalConflicts(ret.neighbor, n, ret.col)
                 <= LocalConflicts([args.board EXCEPT ![ret.col] = row], n,
                                   ret.col)

\* the number of attacking pairs of the board b
ConflictCount(b, k) ==
    Cardinality(RowPairs(b, k)) + Cardinality(DiagonalPairs(b, k))

\* the boards that differ from b in exactly one column
OneColumnAway(b, k) ==
    {x \in Boards(k) : Cardinality({i \in Cols(k) : x[i] # b[i]}) = 1}

\* C14: a greedy iteration that starts with conflict count c > 0, where m is
\* the least conflict count over the boards that differ from the start board
\* in exactly one column: if m < c the board at the end of the iteration
\* differs from the start board in exactly one column and has conflict count
\* m; if m >= c the board is reinitialised by randomInit; and the working
\* board is back at its pre-sweep value after every tentative move.
C14_BestMoveOrReinit ==
    (solver = "iteration" /\ pc = "returned") =>
        LET b == args.board
            c == ConflictCount(b, n)
            least == {ConflictCount(x, n) : x \in OneColumnAway(b, n)}
            m == CHOOSE v \in least : \A w \in least : v <= w
            start == [board |-> b, bestBoard |-> b, bestConflicts |-> c]
        IN /\ c > 0
           /\ ret.conflicts = c
           /\ \A col \in Cols(n) : \A newRow \in Cols(n) \ {b[col]} :
                 greedyTry(start, n, col, newRow).board = b
           /\ ret.sweep.board = b
           /\ ret.sweep.bestConflicts = Min(m, c)
           /\ m < c => /\ ~ret.randomInit
                       /\ board \in OneColumnAway(b, n)
                       /\ ConflictCount(board, n) = m
           /\ m >= c => /\ ret.randomInit
                        /\ board \in Boards(n)

\* a 4-queens iteration that commits the best single move, which is not the
\* first improving move of the sweep
C14_Witness ==
    /\ solver = "iteration" /\ pc = "returned" /\ n = 4
    /\ args.board = [i \in Cols(4) |-> 0]
    /\ ~ret.randomInit
    /\ board \in OneColumnAway(args.board, 4)
    /\ ConflictCount(board, 4) < ret.conflicts
    /\ ConflictCount(board, 4) < ConflictCount([args.board EXCEPT ![0] = 1], 4)
    /\ ConflictCount([args.board EXCEPT ![0] = 1], 4) < ret.conflicts

\* C15: at every loop head and at the loop exit of an annealing run,
\* currentCost is the conflict count of the working board, bestCost is the
\* conflict count of bestBoard and bestCost <= currentCost, also after
\* accepted worse moves and after the drift recovery; so a run that returns
\* false never had a working board of cost zero.
C15_CostsTrackBoards ==
    /\ []((solver = "sa" /\ pc \in {"loop", "redraw"}) =>
             /\ currentCost = ConflictCount(board, n)
             /\ bestCost = ConflictCount(bestBoard, n)
             /\ bestCost <= currentCost
             /\ hadZero => bestCost = 0)
    /\ [][(solver = "sa" /\ runsFailed' = runsFailed + 1) =>
             (~hadZero /\ bestCost > 0 /\ board' = bestBoard)]_vars

\* the loop exit of a 4-queens run whose first iteration ended in the drift
\* recovery and whose second iteration accepted a worse board
C15_Witness ==
    /\ solver = "sa" /\ pc = "loop" /\ n = 4 /\ iter = 2 /\ ~saLoopGuard
    /\ temperature = ((initialTemp(4) \div 2) * coolingRate) \div 100
    /\ currentCost > bestCost
    /\ board # bestBoard

\* C16: within one run of the genetic solver the best fitness after
\* evaluation, population[0].fitness, never increases from one generation to
\* the next (so at the call of createNewGeneration it equals the least best
\* fitness of the run so far); createNewGeneration carries the first
\* eliteSize individuals of the sorted population over unchanged; and the
\* re-initialisation of the worst fifth on stagnation starts at or after
\* index eliteSize, for the population sizes 80, 120 and 150 as for the
\* size of this model, and leaves the elite slots evaluated.
C16_BestFitnessNeverIncreases ==
    /\ []({popSize(k) : k \in 1..50} = {80, 120, 150})
    /\ [](\A p \in {80, 120, 150, PopulationSize} :
             injectionStart(p) >= eliteSizeOf(p))
    /\ []((solver = "ga" /\ pc = "create") =>
             /\ population[0].fitness = bestFitnessEver
             /\ \A i \in 0..(eliteSize - 1) :
                   population[i].fitness
                      = ConflictCount(population[i].chromosome, n))
    /\ [][(solver = "ga" /\ pc = "create") =>
             /\ population'[0].fitness <= population[0].fitness
             /\ pc' = "generation" =>
                   \A i \in 0..(eliteSize - 1) : population'[i] = population[i]]_vars
    /\ [][(solver = "ga" /\ pc = "generation" /\ generation > 0
              /\ population' # population) =>
             population'[0].fitness <= population[0].fitness]_vars

\* a 3-queens run at the call of createNewGeneration in its third
\* generation: the best fitness fell from 3 to 1, then the run stalled and
\* the worst individual was re-initialised
C16_Witness ==
    /\ solver = "ga" /\ pc = "create" /\ n = 3
    /\ generation = 2 /\ generationsWithoutImprovement = 1
    /\ bestFitnessEver = 1 /\ population[0].fitness = 1
    /\ population[1].fitness = 3
    /\ population[2].fitness = 0


\* C17: over a sequence of Solve calls on one heuristic solver, solved and
\* solution are written only by the step with which a successful run
\* returns true, which stores a zero-conflict board; every other step, and so
\* every Solve call that returns false, leaves both as they were; solved is
\* never reset; and while solved is true the stored solution is a
\* zero-conflict board, whatever the working board or population holds.
C17_WrittenOnlyBySuccess ==
    /\ [](solved => NonAttacking(solution, n))
    /\ [](~solved => solution = <<>>)
    /\ [][solved => solved']_vars
    /\ [][(solution' # solution \/ solved' # solved) =>
             /\ pc # "idle" /\ pc' = "idle" /\ result' = "true"
             /\ solved' /\ NonAttacking(solution', n)]_vars
    /\ [][(pc # "idle" /\ pc' = "idle" /\ result' = "false") =>
             UNCHANGED <<solution, solved>>]_vars

\* annealing on a 4x4 board: the first Solve succeeded, the second returned
\* false and left a working board that is not the stored solution
C17_Witness ==
    /\ solver = "sa" /\ n = 4 /\ calls = 2 /\ returned /\ result = "false"
    /\ runsFailed = restarts
    /\ solved /\ NonAttacking(solution, 4)
    /\ board # solution /\ ~NonAttacking(board, 4)
====
